---- MODULE Spec2Model ----
(***************************************************************************)
(* The self-healing locator engine of libraries/SelfHealingLibrary.py as a *)
(* state machine: the in-memory healing cache, the persisted cache file,   *)
(* the healing history and the page the Selenium driver looks at; peer is  *)
(* a second engine process that shares the cache file.                     *)
(*                                                                         *)
(* A Python string is a sequence of chunks of characters in which the      *)
(* character '=' is always a chunk of its own, so that "id=a" is           *)
(* <<"id", "=", "a">>: splitting on the first '=' and formatting with an   *)
(* f-string are then computed as the code computes them.                   *)
(***************************************************************************)
EXTENDS Integers, Sequences, FiniteSets, TLC

VARIABLES page, healing_cache, store, healing_history, last, peer

vars == <<page, healing_cache, store, healing_history, last, peer>>

(***************************************************************************)
(* Bounds                                                                  *)
(***************************************************************************)
\* The longest history a behaviour builds: a call is made only below it.
MaxHistory == 2

(***************************************************************************)
(* Strings                                                                 *)
(***************************************************************************)
Min(S) == CHOOSE i \in S : \A j \in S : i <= j

\* '=' in s
HasEq(s) == \E i \in 1..Len(s) : s[i] = "="

\* s.split('=', 1), for a string that holds '='
SplitEq(s) ==
    LET i == Min({j \in 1..Len(s) : s[j] = "="})
    IN  <<SubSeq(s, 1, i - 1), SubSeq(s, i + 1, Len(s))>>

\* str.lower() on the chunks the model uses
LowerChunk(c) ==
    CASE c = "ID" -> "id"
      [] c = "Id" -> "id"
      [] c = "NAME" -> "name"
      [] c = "XPATH" -> "xpath"
      [] c = "CSS" -> "css"
      [] OTHER -> c

Lower(s) == [i \in 1..Len(s) |-> LowerChunk(s[i])]

\* a in b, for two strings: a is a substring of b
IsSubstring(a, b) ==
    \E i \in 0..(Len(b) - Len(a)) : SubSeq(b, i + 1, i + Len(a)) = a

(***************************************************************************)
(* The page and the Selenium driver (the Element Finder)                   *)
(***************************************************************************)
\* f"//*[contains(text(), '{text}')]"
TextXPath(text) == <<"//*[contains(text(), '", text, "')]">>

\* f'[{attr}]'
AttrSelector(attr) == <<"[", attr, "]">>

\* An element of the page: its tag, its id and name attributes ("" when it
\* has none), the hint words its own text contains, its other attributes, and
\* the opaque xpath expressions that select it.
Element(tag, id, name, text, attrs, xp) ==
    [tag_name |-> tag, id |-> id, name |-> name, text |-> text,
     attrs |-> attrs, xp |-> xp]

Root   == Element("html", <<>>, <<>>, {}, {}, {})
Button == Element("button", <<"a">>, <<"b">>, {"Login"}, {}, {})
Input  == Element("input", <<>>, <<"n">>, {}, {"type"}, {<<"//x">>})
Div    == Element("div", <<>>, <<>>, {"Save"}, {"role"}, {})
Anchor == Element("a", <<"o">>, <<>>, {}, {}, {})

Elements == {Button, Input, Div, Anchor}

\* The documents: the root element, then at most two more, in document order.
Doms ==
    {<<Root>>} \cup {<<Root, e>> : e \in Elements}
               \cup {d \in {<<Root, e, f>> : e \in Elements, f \in Elements} :
                        d[2] # d[3]}

\* element.get_attribute(a) is non-empty / the attribute is present
HasAttribute(el, a) ==
    \/ a \in el.attrs
    \/ a = "name" /\ el.name # <<>>
    \/ a = "id" /\ el.id # <<>>

\* The positions of the elements of dom that (by, value) selects.
Matches(dom, by, value) ==
    CASE by = "id" ->
            {i \in 1..Len(dom) : value # <<>> /\ dom[i].id = value}
      [] by = "name" ->
            {i \in 1..Len(dom) : value # <<>> /\ dom[i].name = value}
      [] by = "tag name" ->
            {i \in 1..Len(dom) : value = <<dom[i].tag_name>>}
      [] by = "css selector" ->
            IF Len(value) = 3 /\ value[1] = "[" /\ value[3] = "]"
            THEN {i \in 1..Len(dom) : HasAttribute(dom[i], value[2])}
            ELSE {}
      [] by = "xpath" ->
            IF Len(value) = 3 /\ value[1] = "//*[contains(text(), '" /\ value[3] = "')]"
            THEN {i \in 1..Len(dom) : value[2] \in dom[i].text}
            ELSE IF Len(value) = 3 /\ value[1] = "(" /\ value[3] = ")[1]"
            \* (tag)[1] is a relative path from the document node, whose only
            \* element child is the root element
            THEN {i \in {1} : dom[i].tag_name = value[2]}
            ELSE {i \in 1..Len(dom) : value \in dom[i].xp}
      [] OTHER -> {}

Found(el) == [kind |-> "element", element |-> el]
NoSuchElementException == [kind |-> "NoSuchElementException"]
WebDriverException == [kind |-> "WebDriverException"]
ElementList(els) == [kind |-> "list", elements |-> els]

\* The elements of dom at the positions m, in document order.
RECURSIVE InOrder(_, _)
InOrder(dom, m) ==
    IF m = {} THEN <<>>
    ELSE <<dom[Min(m)]>> \o InOrder(dom, m \ {Min(m)})

Query(by, value) == <<by, value>>

\* driver.find_element(by, value) on page p
driver_find_element(p, by, value) ==
    IF Query(by, value) \in p.err THEN WebDriverException
    ELSE LET m == Matches(p.dom, by, value)
         IN  IF m = {} THEN NoSuchElementException
             ELSE Found(p.dom[Min(m)])

\* driver.find_elements(by, value) on page p: the list of the matches
\* (empty when there is none), or an error
driver_find_elements(p, by, value) ==
    IF Query(by, value) \in p.err THEN WebDriverException
    ELSE ElementList(InOrder(p.dom, Matches(p.dom, by, value)))

(***************************************************************************)
(* SelfHealingLibrary: locators                                            *)
(***************************************************************************)
None == [kind |-> "None"]
TypeError == [kind |-> "TypeError"]

\* What a step of a keyword gives: a value or exception, and the driver
\* queries it made, in order.
Did(result, calls) == [result |-> result, calls |-> calls]

\* by_mapping.get(strategy.lower(), By.XPATH)
by_mapping(strategy) ==
    LET key == Lower(strategy)
    IN  CASE key = <<"id">> -> "id"
          [] key = <<"name">> -> "name"
          [] key = <<"xpath">> -> "xpath"
          [] key = <<"css">> -> "css selector"
          [] key = <<"class">> -> "class name"
          [] key = <<"tag">> -> "tag name"
          [] key = <<"link">> -> "link text"
          [] key = <<"partial_link">> -> "partial link text"
          [] OTHER -> "xpath"

\* The driver query _find_element makes for a locator string.
LocatorQuery(locator) ==
    IF HasEq(locator)
    THEN Query(by_mapping(SplitEq(locator)[1]), SplitEq(locator)[2])
    ELSE Query("xpath", locator)

\* _find_element(driver, locator)
find_element(p, locator) ==
    LET q == LocatorQuery(locator)
    IN  Did(driver_find_element(p, q[1], q[2]), <<q>>)

\* _get_element_locator(), were it to prefer the name of an element to its id.
get_element_locator_NameFirst(element) ==
    IF element.name # <<>> THEN <<"name", "=">> \o element.name
    ELSE IF element.id # <<>> THEN <<"id", "=">> \o element.id
    ELSE <<"xpath", "=", "(", element.tag_name, ")[1]">>

\* _get_element_locator(element)
get_element_locator(element) ==
    IF element.id # <<>> THEN <<"id", "=">> \o element.id
    ELSE IF element.name # <<>> THEN <<"name", "=">> \o element.name
    ELSE <<"xpath", "=", "(", element.tag_name, ")[1]">>

(***************************************************************************)
(* SelfHealingLibrary: the healing strategies                              *)
(***************************************************************************)
text_hints == <<"Login", "Submit", "Search", "Save", "Cancel">>

attributes == <<"data-testid", "data-test", "name", "type", "role", "aria-label">>

\* The loop of _heal_by_text_content from hint i on: the first hint whose
\* query finds an element returns it; a query that raises is skipped.
RECURSIVE TextLoop(_, _)
TextLoop(p, i) ==
    IF i > Len(text_hints) THEN Did(None, <<>>)
    ELSE LET value == TextXPath(text_hints[i])
             r == driver_find_element(p, "xpath", value)
         IN  IF r.kind = "element" THEN Did(r, <<Query("xpath", value)>>)
             ELSE LET rest == TextLoop(p, i + 1)
                  IN  Did(rest.result, <<Query("xpath", value)>> \o rest.calls)

\* _heal_by_text_content(driver, locator)
heal_by_text_content(p, locator) == TextLoop(p, 1)

\* The loop of _heal_by_attributes from attribute i on: the first attribute
\* whose query finds elements returns the first of them; a query that raises
\* is skipped.
RECURSIVE AttributeLoop(_, _)
AttributeLoop(p, i) ==
    IF i > Len(attributes) THEN Did(None, <<>>)
    ELSE LET value == AttrSelector(attributes[i])
             r == driver_find_elements(p, "css selector", value)
         IN  IF r.kind = "list" /\ r.elements # <<>>
             THEN Did(Found(r.elements[1]), <<Query("css selector", value)>>)
             ELSE LET rest == AttributeLoop(p, i + 1)
                  IN  Did(rest.result, <<Query("css selector", value)>> \o rest.calls)

\* _heal_by_attributes(driver, locator)
heal_by_attributes(p, locator) == AttributeLoop(p, 1)

\* _heal_by_nearby_elements(driver, locator)
heal_by_nearby_elements(p, locator) == Did(None, <<>>)

\* _heal_by_position(driver, locator)
heal_by_position(p, locator) == Did(None, <<>>)

\* _heal_by_visual_similarity(driver, locator)
heal_by_visual_similarity(p, locator) == Did(None, <<>>)

\* strategies, were the attribute probe listed before the text match.
strategies_AttributesFirst ==
    <<"_heal_by_attributes", "_heal_by_text_content", "_heal_by_nearby_elements",
      "_heal_by_position", "_heal_by_visual_similarity">>

strategies ==
    <<"_heal_by_text_content", "_heal_by_nearby_elements", "_heal_by_attributes",
      "_heal_by_position", "_heal_by_visual_similarity">>

\* strategy(driver, original_locator)
Strategy(name, p, locator) ==
    CASE name = "_heal_by_text_content" -> heal_by_text_content(p, locator)
      [] name = "_heal_by_nearby_elements" -> heal_by_nearby_elements(p, locator)
      [] name = "_heal_by_attributes" -> heal_by_attributes(p, locator)
      [] name = "_heal_by_position" -> heal_by_position(p, locator)
      [] name = "_heal_by_visual_similarity" -> heal_by_visual_similarity(p, locator)

\* What the chain gives: the element or None, the driver queries made and
\* the strategies called, in order.
Healed(result, calls, tried) == [result |-> result, calls |-> calls, tried |-> tried]

\* StrategyLoop, were a strategy that met a driver error to end the chain.
RECURSIVE StrategyLoop_Aborting(_, _, _)
StrategyLoop_Aborting(p, locator, i) ==
    IF i > Len(strategies) THEN Healed(None, <<>>, <<>>)
    ELSE LET r == Strategy(strategies[i], p, locator)
         IN  IF r.result.kind = "element"
             THEN Healed(r.result, r.calls, <<strategies[i]>>)
             ELSE IF \E j \in 1..Len(r.calls) : r.calls[j] \in p.err
             THEN Healed(None, r.calls, <<strategies[i]>>)
             ELSE LET rest == StrategyLoop_Aborting(p, locator, i + 1)
                  IN  Healed(rest.result, r.calls \o rest.calls,
                             <<strategies[i]>> \o rest.tried)

\* The loop of _try_healing_strategies from strategy i on: the first strategy
\* that gives an element returns it; one that gives None or raises is passed
\* over.
RECURSIVE StrategyLoop(_, _, _)
StrategyLoop(p, locator, i) ==
    IF i > Len(strategies) THEN Healed(None, <<>>, <<>>)
    ELSE LET r == Strategy(strategies[i], p, locator)
         IN  IF r.result.kind = "element"
             THEN Healed(r.result, r.calls, <<strategies[i]>>)
             ELSE LET rest == StrategyLoop(p, locator, i + 1)
                  IN  Healed(rest.result, r.calls \o rest.calls,
                             <<strategies[i]>> \o rest.tried)

\* _try_healing_strategies(), were every strategy to give up on an original
\* locator that names no strategy.
try_healing_strategies_PrefixedOnly(p, original_locator) ==
    IF HasEq(original_locator) THEN StrategyLoop(p, original_locator, 1)
    ELSE Healed(None, <<>>, strategies)

\* _try_healing_strategies(driver, original_locator)
try_healing_strategies(p, original_locator) == StrategyLoop(p, original_locator, 1)

(***************************************************************************)
(* The cache file and the JSON documents it can hold                       *)
(***************************************************************************)
\* JSON documents
JString(s) == [json |-> "string", value |-> s]
JNumber == [json |-> "number"]
JArray(items) == [json |-> "array", items |-> items]
JObject(members) == [json |-> "object", members |-> members]

\* Python values
PyStr(s) == [type |-> "str", value |-> s]
PyInt == [type |-> "int"]
PyList(items) == [type |-> "list", items |-> items]
PyDict(items) == [type |-> "dict", items |-> items]

\* json.load of a flat document: a scalar, or an array or object of scalars
LoadScalar(doc) == IF doc.json = "string" THEN PyStr(doc.value) ELSE PyInt

json_load(doc) ==
    CASE doc.json = "object" ->
            PyDict([k \in DOMAIN doc.members |-> LoadScalar(doc.members[k])])
      [] doc.json = "array" ->
            PyList([i \in 1..Len(doc.items) |-> LoadScalar(doc.items[i])])
      [] OTHER -> LoadScalar(doc)

\* json.dump of such a value
DumpScalar(v) == IF v.type = "str" THEN JString(v.value) ELSE JNumber

json_dump(v) ==
    CASE v.type = "dict" ->
            JObject([k \in DOMAIN v.items |-> DumpScalar(v.items[k])])
      [] v.type = "list" ->
            JArray([i \in 1..Len(v.items) |-> DumpScalar(v.items[i])])
      [] OTHER -> DumpScalar(v)

\* reports/healing_cache.json: no file, a file that cannot be opened, a file
\* whose text is no JSON, or a file holding a JSON document
AbsentFile == [file |-> "absent"]
UnreadableFile == [file |-> "unreadable"]
MalformedFile == [file |-> "malformed"]
JsonFile(doc) == [file |-> "json", doc |-> doc]

\* len(v)
HasLen(v) == v.type \in {"dict", "list", "str"}

\* The try block of load_cache: the cache it leaves and the exception it
\* ends with, if any.
LoadTry(cache, st) ==
    CASE st.file = "absent" -> [healing_cache |-> cache, exception |-> "none"]
      [] st.file = "unreadable" -> [healing_cache |-> cache, exception |-> "PermissionError"]
      [] st.file = "malformed" -> [healing_cache |-> cache, exception |-> "JSONDecodeError"]
      [] st.file = "json" ->
            [healing_cache |-> json_load(st.doc),
             exception |-> IF HasLen(json_load(st.doc)) THEN "none" ELSE "TypeError"]

\* load_cache(): every exception of the try block is caught and logged.
load_cache(cache, st) ==
    LET t == LoadTry(cache, st)
    IN  [healing_cache |-> t.healing_cache,
         warning |-> t.exception # "none",
         raised |-> "none"]

\* What can go wrong with a save: nothing, the directory or the file cannot
\* be opened, or the write fails after the file was truncated.
SaveFaults == {"none", "open", "write"}

\* save_cache(), were it to merge the cache into the mapping that the file
\* holds instead of replacing the file.
save_cache_Merging(cache, st, fault) ==
    CASE fault = "none" ->
            [store |-> IF cache.type = "dict" /\ st.file = "json" /\ st.doc.json = "object"
                       THEN JsonFile(JObject(json_dump(cache).members @@ st.doc.members))
                       ELSE JsonFile(json_dump(cache)),
             warning |-> FALSE]
      [] fault = "open" -> [store |-> st, warning |-> TRUE]
      [] fault = "write" -> [store |-> MalformedFile, warning |-> TRUE]

\* save_cache(): every exception of the try block is caught and logged.
save_cache(cache, st, fault) ==
    CASE fault = "none" -> [store |-> JsonFile(json_dump(cache)), warning |-> FALSE]
      [] fault = "open" -> [store |-> st, warning |-> TRUE]
      [] fault = "write" -> [store |-> MalformedFile, warning |-> TRUE]

(***************************************************************************)
(* SelfHealingLibrary: Find Element With Healing                           *)
(***************************************************************************)
\* How a stage of the keyword ends: "hit" (it found the element), "absent"
\* (there is no cache entry to try), "failed" (it found nothing, and the
\* keyword goes on) or "raise" (its exception leaves the keyword).
Stage(step, result, calls) == [step |-> step, result |-> result, calls |-> calls]

\* "Try cache first": the membership test, the lookup, and the attempt with
\* the cached locator, whose every exception is swallowed.
CacheStage(p, cache, locator) ==
    CASE cache.type = "int" -> Stage("raise", TypeError, <<>>)
      [] cache.type = "list" ->
            IF \E i \in 1..Len(cache.items) : cache.items[i] = PyStr(locator)
            THEN Stage("raise", TypeError, <<>>)
            ELSE Stage("absent", None, <<>>)
      [] cache.type = "str" ->
            IF IsSubstring(locator, cache.value)
            THEN Stage("raise", TypeError, <<>>)
            ELSE Stage("absent", None, <<>>)
      [] cache.type = "dict" ->
            IF locator \notin DOMAIN cache.items THEN Stage("absent", None, <<>>)
            ELSE LET cached_locator == cache.items[locator]
                 IN  IF cached_locator.type # "str" THEN Stage("failed", TypeError, <<>>)
                     ELSE LET r == find_element(p, cached_locator.value)
                          IN  IF r.result.kind = "element"
                              THEN Stage("hit", r.result, r.calls)
                              ELSE Stage("failed", r.result, r.calls)

\* OriginalStage, were it to catch every exception as the cache stage does.
OriginalStage_CatchAll(p, locator) ==
    LET r == find_element(p, locator)
    IN  IF r.result.kind = "element" THEN Stage("hit", r.result, r.calls)
        ELSE Stage("failed", r.result, r.calls)

\* "Strategy 1: Try original locator": only NoSuchElementException is caught.
OriginalStage(p, locator) ==
    LET r == find_element(p, locator)
    IN  CASE r.result.kind = "element" -> Stage("hit", r.result, r.calls)
          [] r.result.kind = "NoSuchElementException" -> Stage("failed", r.result, r.calls)
          [] OTHER -> Stage("raise", r.result, r.calls)

\* NoSuchElementException(f"Could not find element even with self-healing: {original_locator}")
CouldNotFind(original_locator) ==
    [kind |-> "NoSuchElementException",
     msg |-> <<"Could not find element even with self-healing: ">> \o original_locator]

\* healing_info
HealingInfo(original_locator, healed_locator, stamp) ==
    [original_locator |-> original_locator, healed_locator |-> healed_locator,
     timestamp |-> stamp.timestamp, healing_time |-> stamp.healing_time]

\* What a call of the keyword gives: it returns value or raises it; the path
\* that resolved it, the driver queries and the strategies it ran, how the
\* cache stage ended, and the engine's state after it.
Outcome(outcome, value, path, cache_stage, calls, tried, cache, st, history, warning) ==
    [outcome |-> outcome, value |-> value, path |-> path, cache_stage |-> cache_stage,
     calls |-> calls, tried |-> tried, healing_cache |-> cache, store |-> st,
     healing_history |-> history, warning |-> warning]

\* HealedStage, were it to log the heal without caching the healed locator.
HealedStage_NotCached(cache, st, history, original_locator, c, o, h, fault, stamp) ==
    LET healed_locator == get_element_locator(h.result.element)
        calls == c.calls \o o.calls \o h.calls
    IN  Outcome("return", h.result, "fallback", c.step, calls, h.tried, cache, st,
                Append(history, HealingInfo(original_locator, healed_locator, stamp)),
                FALSE)

\* HealedStage, were it to cache the healed locator without logging the heal.
HealedStage_NotLogged(cache, st, history, original_locator, c, o, h, fault, stamp) ==
    LET healed_locator == get_element_locator(h.result.element)
        calls == c.calls \o o.calls \o h.calls
        cache2 == IF cache.type = "dict"
                  THEN PyDict((original_locator :> PyStr(healed_locator)) @@ cache.items)
                  ELSE cache
        saved == save_cache(cache2, st, fault)
    IN  Outcome("return", h.result, "fallback", c.step, calls, h.tried,
                cache2, saved.store, history, saved.warning)

\* HealedStage, were a failed save to end the call with the error of the save.
HealedStage_SaveFatal(cache, st, history, original_locator, c, o, h, fault, stamp) ==
    LET healed_locator == get_element_locator(h.result.element)
        calls == c.calls \o o.calls \o h.calls
        cache2 == IF cache.type = "dict"
                  THEN PyDict((original_locator :> PyStr(healed_locator)) @@ cache.items)
                  ELSE cache
        saved == save_cache(cache2, st, fault)
    IN  IF cache.type # "dict"
        THEN Outcome("raise", TypeError, "none", c.step, calls, h.tried,
                     cache, st, history, FALSE)
        ELSE IF saved.warning
        THEN Outcome("raise", [kind |-> "OSError"], "none", c.step, calls, h.tried,
                     cache2, saved.store, history, TRUE)
        ELSE Outcome("return", h.result, "fallback", c.step, calls, h.tried,
                     cache2, saved.store,
                     Append(history, HealingInfo(original_locator, healed_locator, stamp)),
                     FALSE)

\* HealedStage, were it to put the healing event at the head of the history.
HealedStage_Prepending(cache, st, history, original_locator, c, o, h, fault, stamp) ==
    LET healed_locator == get_element_locator(h.result.element)
        calls == c.calls \o o.calls \o h.calls
    IN  IF cache.type # "dict"
        THEN Outcome("raise", TypeError, "none", c.step, calls, h.tried,
                     cache, st, history, FALSE)
        ELSE LET cache2 == PyDict((original_locator :> PyStr(healed_locator)) @@ cache.items)
                 saved == save_cache(cache2, st, fault)
             IN  Outcome("return", h.result, "fallback", c.step, calls, h.tried,
                         cache2, saved.store,
                         <<HealingInfo(original_locator, healed_locator, stamp)>> \o history,
                         saved.warning)

\* HealedStage, were it to keep the entry the cache already has for the
\* original locator.
HealedStage_KeepFirst(cache, st, history, original_locator, c, o, h, fault, stamp) ==
    LET healed_locator == get_element_locator(h.result.element)
        calls == c.calls \o o.calls \o h.calls
    IN  IF cache.type # "dict"
        THEN Outcome("raise", TypeError, "none", c.step, calls, h.tried,
                     cache, st, history, FALSE)
        ELSE LET cache2 == PyDict(cache.items @@ (original_locator :> PyStr(healed_locator)))
                 saved == save_cache(cache2, st, fault)
             IN  Outcome("return", h.result, "fallback", c.step, calls, h.tried,
                         cache2, saved.store,
                         Append(history, HealingInfo(original_locator, healed_locator, stamp)),
                         saved.warning)

\* "Cache the healed locator" and "Log healing success", with the healed
\* element in hand.
HealedStage(cache, st, history, original_locator, c, o, h, fault, stamp) ==
    LET healed_locator == get_element_locator(h.result.element)
        calls == c.calls \o o.calls \o h.calls
    IN  IF cache.type # "dict"
        THEN Outcome("raise", TypeError, "none", c.step, calls, h.tried,
                     cache, st, history, FALSE)
        ELSE LET cache2 == PyDict((original_locator :> PyStr(healed_locator)) @@ cache.items)
                 saved == save_cache(cache2, st, fault)
             IN  Outcome("return", h.result, "fallback", c.step, calls, h.tried,
                         cache2, saved.store,
                         Append(history, HealingInfo(original_locator, healed_locator, stamp)),
                         saved.warning)

\* Exhausted, were it to drop the cache entry that has just failed.
Exhausted_Evicting(cache, st, history, original_locator, c, o, h) ==
    Outcome("raise", CouldNotFind(original_locator), "none", c.step,
            c.calls \o o.calls \o h.calls, h.tried,
            IF cache.type = "dict"
            THEN PyDict([k \in DOMAIN cache.items \ {original_locator} |-> cache.items[k]])
            ELSE cache,
            st, history, FALSE)

\* raise NoSuchElementException(...): the chain found nothing.
Exhausted(cache, st, history, original_locator, c, o, h) ==
    Outcome("raise", CouldNotFind(original_locator), "none", c.step,
            c.calls \o o.calls \o h.calls, h.tried, cache, st, history, FALSE)

\* "Strategy 2: Try alternative locator types"
FallbackStage(p, cache, st, history, locator, c, o, fault, stamp) ==
    LET h == try_healing_strategies(p, locator)
    IN  IF h.result.kind = "element"
        THEN HealedStage(cache, st, history, locator, c, o, h, fault, stamp)
        ELSE Exhausted(cache, st, history, locator, c, o, h)

\* CacheHit, were it to log the reuse of the cached locator as a heal.
CacheHit_Logged(cache, st, history, c) ==
    Outcome("return", c.result, "cache", c.step, c.calls, <<>>, cache, st,
            Append(history, HealingInfo(<<>>, get_element_locator(c.result.element),
                                        [timestamp |-> "t", healing_time |-> 0])),
            FALSE)

\* return element, found with the cached locator
CacheHit(cache, st, history, c) ==
    Outcome("return", c.result, "cache", c.step, c.calls, <<>>,
            cache, st, history, FALSE)

\* OriginalHit, were it to evict the cache entry that has just failed.
OriginalHit_Evicting(cache, st, history, locator, c, o) ==
    Outcome("return", o.result, "original", c.step, c.calls \o o.calls, <<>>,
            IF cache.type = "dict"
            THEN PyDict([k \in DOMAIN cache.items \ {locator} |-> cache.items[k]])
            ELSE cache,
            st, history, FALSE)

\* return element, found with the original locator
OriginalHit(cache, st, history, locator, c, o) ==
    Outcome("return", o.result, "original", c.step, c.calls \o o.calls, <<>>,
            cache, st, history, FALSE)

\* An exception leaves the keyword at the cache or the original stage.
Raised(cache, st, history, c, calls, exception) ==
    Outcome("raise", exception, "none", c.step, calls, <<>>,
            cache, st, history, FALSE)

\* find_element_with_healing(driver, locator)
find_element_with_healing(p, cache, st, history, locator, fault, stamp) ==
    LET c == CacheStage(p, cache, locator)
    IN  CASE c.step = "raise" -> Raised(cache, st, history, c, c.calls, c.result)
          [] c.step = "hit" -> CacheHit(cache, st, history, c)
          [] OTHER ->
                LET o == OriginalStage(p, locator)
                IN  CASE o.step = "raise" ->
                            Raised(cache, st, history, c, c.calls \o o.calls, o.result)
                      [] o.step = "hit" -> OriginalHit(cache, st, history, locator, c, o)
                      [] OTHER ->
                            FallbackStage(p, cache, st, history, locator, c, o, fault, stamp)

\* len() of a Python value; an int has none.
StrLen(s) == IF s = <<>> THEN 0 ELSE LET n[i \in 1..Len(s)] ==
                                             Len(s[i]) + (IF i = 1 THEN 0 ELSE n[i - 1])
                                         IN  n[Len(s)]

len(v) ==
    CASE v.type = "dict" -> Cardinality(DOMAIN v.items)
      [] v.type = "list" -> Len(v.items)
      [] v.type = "str" -> StrLen(v.value)

\* The bound of the slice healing_history[-10:]
RecentLimit == 10

\* history[-RecentLimit:]
Recent(history) ==
    LET n == Len(history)
        start == IF n - RecentLimit > 0 THEN n - RecentLimit ELSE 0
    IN  SubSeq(history, start + 1, n)

Stats(total_healings, cached_locators, recent_healings) ==
    [kind |-> "stats", total_healings |-> total_healings,
     cached_locators |-> cached_locators, recent_healings |-> recent_healings]

\* get_healing_statistics(): the stats dictionary is built, logged and
\* returned; len() of a cache that has no length raises.
get_healing_statistics(cache, st, history) ==
    IF ~HasLen(cache)
    THEN Outcome("raise", TypeError, "none", "absent", <<>>, <<>>,
                 cache, st, history, FALSE)
    ELSE Outcome("return",
                 Stats(Len(history), len(cache),
                       IF history # <<>> THEN Recent(history) ELSE <<>>),
                 "none", "absent", <<>>, <<>>, cache, st, history, FALSE)

(***************************************************************************)
(* The state machine                                                       *)
(***************************************************************************)
\* The locators the tests ask for: a prefixed one and a bare xpath.
Originals == {<<"id", "=", "o">>, <<"//x">>}

\* The driver queries that can fail with an error other than not-found.
ErrQueries ==
    {LocatorQuery(<<"id", "=", "o">>), LocatorQuery(<<"id", "=", "a">>),
     Query("xpath", TextXPath("Login"))}

\* At most one of them fails at a time.
Errs == {{}} \cup {{q} : q \in ErrQueries}

Pages == [dom : Doms, err : Errs]

\* time.strftime(...) and round(time.time() - start_time, 2) of a heal
Stamps == {[timestamp |-> "t", healing_time |-> 0]}

\* The cache file when the engine starts.
InitialStores ==
    {AbsentFile, UnreadableFile, MalformedFile,
     JsonFile(JObject(<<"id", "=", "o">> :> JString(<<"id", "=", "a">>))),
     JsonFile(JObject(<<"id", "=", "o">> :> JNumber)),
     JsonFile(JArray(<<JString(<<"id", "=", "o">>)>>)),
     JsonFile(JString(<<"id", "=", "o">>)),
     JsonFile(JNumber)}

Snapshot == [healing_cache |-> healing_cache, store |-> store,
             healing_history |-> healing_history, page |-> page, peer |-> peer]

\* The memory of an engine process: its cache and its history.
Engine(cache, history) == [healing_cache |-> cache, healing_history |-> history]

\* No second process runs.
NoEngine == Engine(None, <<>>)

\* The last operation: what was called, what it gave, and the state it was
\* called in.
Last(op, locator, r, pre) ==
    [op |-> op, locator |-> locator, outcome |-> r.outcome, value |-> r.value,
     path |-> r.path, cache_stage |-> r.cache_stage, calls |-> r.calls,
     tried |-> r.tried, warning |-> r.warning, pre |-> pre]

Quiet(cache, st, history, warning) ==
    Outcome("return", None, "none", "absent", <<>>, <<>>, cache, st, history, warning)

\* __init__(): an empty cache and history, then load_cache()
Init ==
    /\ page \in Pages
    /\ store \in InitialStores
    /\ healing_cache = load_cache(PyDict(<<>>), store).healing_cache
    /\ healing_history = <<>>
    /\ peer = NoEngine
    /\ last = Last("__init__", <<>>,
                   Quiet(healing_cache, store, healing_history,
                         load_cache(PyDict(<<>>), store).warning),
                   [healing_cache |-> PyDict(<<>>), store |-> store,
                    healing_history |-> <<>>, page |-> page, peer |-> peer])

\* A test calls Find Element With Healing.
FindElementWithHealing(locator, fault, stamp) ==
    /\ Len(healing_history) < MaxHistory
    /\ LET r == find_element_with_healing(page, healing_cache, store, healing_history,
                                          locator, fault, stamp)
       IN  /\ healing_cache' = r.healing_cache
           /\ store' = r.store
           /\ healing_history' = r.healing_history
           /\ last' = Last("find_element_with_healing", locator, r, Snapshot)
    /\ UNCHANGED <<page, peer>>

\* A test calls Get Healing Statistics.
GetHealingStatistics ==
    /\ LET r == get_healing_statistics(healing_cache, store, healing_history)
       IN  /\ healing_cache' = r.healing_cache
           /\ store' = r.store
           /\ healing_history' = r.healing_history
           /\ last' = Last("get_healing_statistics", <<>>, r, Snapshot)
    /\ UNCHANGED <<page, peer>>

\* The state a step of the environment leaves, as the last operation.
Environment(p) ==
    Last("page", <<>>, Quiet(healing_cache, store, healing_history, FALSE),
         [Snapshot EXCEPT !.page = p])

\* The application under test changes the document.
ChangeDom ==
    /\ \E dom \in Doms \ {page.dom} : page' = [page EXCEPT !.dom = dom]
    /\ last' = Environment(page')
    /\ UNCHANGED <<healing_cache, store, healing_history, peer>>

\* A driver query starts or stops failing.
ChangeErr ==
    /\ \E err \in Errs \ {page.err} : page' = [page EXCEPT !.err = err]
    /\ last' = Environment(page')
    /\ UNCHANGED <<healing_cache, store, healing_history, peer>>

Next ==
    \/ \E locator \in Originals, fault \in SaveFaults, stamp \in Stamps :
          FindElementWithHealing(locator, fault, stamp)
    \/ GetHealingStatistics
    \/ ChangeDom
    \/ ChangeErr

Spec == Init /\ [][Next]_vars

(***************************************************************************)
(* _find_element on its own: a locator string and the driver query it makes *)
(***************************************************************************)
\* The strategy names of by_mapping
StrategyNames ==
    {"id", "name", "xpath", "css", "class", "tag", "link", "partial_link"}

\* The locator strings given to _find_element: a value, bare or behind a
\* prefix that is a strategy name, a strategy name in capitals or no
\* strategy name; the values are plain ones, a bare xpath, and an xpath
\* with '=' inside a predicate.
LocatorValues == {<<"o">>, <<"a">>, <<"//x">>, <<"//x[@k", "=", "'v']">>}

LocatorPrefixes == {<<>>} \cup {<<n, "=">> : n \in StrategyNames \cup {"ID", "foo"}}

Locators == {prefix \o value : prefix \in LocatorPrefixes, value \in LocatorValues}

\* A locator string is about to be looked up on a page.
InitFind ==
    /\ page \in Pages
    /\ store = AbsentFile
    /\ healing_cache = PyDict(<<>>)
    /\ healing_history = <<>>
    /\ peer = NoEngine
    /\ \E locator \in Locators :
          last = Last("locator", locator,
                      Quiet(healing_cache, store, healing_history, FALSE), Snapshot)

\* _find_element(driver, locator) is called with it.
FindElement ==
    /\ last.op = "locator"
    /\ LET r == find_element(page, last.locator)
       IN  last' = [last EXCEPT !.op = "_find_element",
                                !.outcome = IF r.result.kind = "element"
                                            THEN "return" ELSE "raise",
                                !.value = r.result,
                                !.calls = r.calls]
    /\ UNCHANGED <<page, healing_cache, store, healing_history, peer>>

NextFind == FindElement

SpecFind == InitFind /\ [][NextFind]_vars

(***************************************************************************)
(* libraries/AILocatorLibrary.py: the locator generator and the scorer.    *)
(* An element descriptor is a Python dict: the sequence of its key/value   *)
(* pairs in insertion order, with distinct keys.  A locator given to the   *)
(* scorer is a sequence of single characters.                              *)
(***************************************************************************)
\* The most pairs of a descriptor, and the most fragments of a scored locator.
MaxKeys == 3
MaxFragments == 2

\* key in element_info
Has(element_info, key) == \E i \in 1..Len(element_info) : element_info[i][1] = key

\* element_info[key]
Get(element_info, key) ==
    element_info[CHOOSE i \in 1..Len(element_info) : element_info[i][1] = key][2]

\* element_info.get(key, default)
GetOr(element_info, key, default) ==
    IF Has(element_info, key) THEN Get(element_info, key) ELSE default

\* The truth value of a string
Truthy(v) == v # <<>>

\* The f-strings of the six rules
IdLocator(v) == <<"id", "=">> \o v
TestIdLocator(v) == <<"css", "=", "[data-testid", "=", "'">> \o v \o <<"']">>
NameLocator(v) == <<"name", "=">> \o v
CompositeLocator(tag, class, type) ==
    <<"css", "=">> \o tag \o <<".">> \o class \o <<"[type", "=", "'">> \o type \o <<"']">>
TextLocator(v) == <<"xpath", "=", "//*[contains(text(), '">> \o v \o <<"')]">>
AriaLocator(v) == <<"css", "=", "[aria-label", "=", "'">> \o v \o <<"']">>

\* What a rule appends to the list: its locator when its condition holds.
Appended(condition, locator) == IF condition THEN <<locator>> ELSE <<>>

\* generate_smart_locator(), were it to take an id that is present, empty
\* or not.
generate_smart_locator_IdPresent(element_info) ==
    Appended(Has(element_info, "id"), IdLocator(GetOr(element_info, "id", <<>>)))
    \o Appended(Has(element_info, "data-testid"),
                TestIdLocator(GetOr(element_info, "data-testid", <<>>)))
    \o Appended(Has(element_info, "name") /\ Truthy(GetOr(element_info, "name", <<>>)),
                NameLocator(GetOr(element_info, "name", <<>>)))
    \o Appended(Has(element_info, "class") /\ Has(element_info, "type"),
                CompositeLocator(GetOr(element_info, "tag", <<"button">>),
                                 GetOr(element_info, "class", <<>>),
                                 GetOr(element_info, "type", <<>>)))
    \o Appended(Has(element_info, "text"), TextLocator(GetOr(element_info, "text", <<>>)))
    \o Appended(Has(element_info, "aria-label"),
                AriaLocator(GetOr(element_info, "aria-label", <<>>)))

\* The locator of the rule that the key at position i of the descriptor
\* starts, for a generator that walks the keys of the descriptor.
KeyRule(element_info, i) ==
    LET key == element_info[i][1]
        v == element_info[i][2]
    IN  CASE key = "id" -> Appended(Truthy(v), IdLocator(v))
          [] key = "data-testid" -> <<TestIdLocator(v)>>
          [] key = "name" -> Appended(Truthy(v), NameLocator(v))
          [] key = "class" ->
                Appended(Has(element_info, "type"),
                         CompositeLocator(GetOr(element_info, "tag", <<"button">>), v,
                                          GetOr(element_info, "type", <<>>)))
          [] key = "text" -> <<TextLocator(v)>>
          [] key = "aria-label" -> <<AriaLocator(v)>>
          [] OTHER -> <<>>

\* generate_smart_locator(), were it to apply the rules in the order of the
\* keys of the descriptor.
generate_smart_locator_KeyOrder(element_info) ==
    LET walk[i \in 0..Len(element_info)] ==
            IF i = 0 THEN <<>> ELSE walk[i - 1] \o KeyRule(element_info, i)
    IN  walk[Len(element_info)]

\* generate_smart_locator(element_info)
generate_smart_locator(element_info) ==
    Appended(Has(element_info, "id") /\ Truthy(GetOr(element_info, "id", <<>>)),
             IdLocator(GetOr(element_info, "id", <<>>)))
    \o Appended(Has(element_info, "data-testid"),
                TestIdLocator(GetOr(element_info, "data-testid", <<>>)))
    \o Appended(Has(element_info, "name") /\ Truthy(GetOr(element_info, "name", <<>>)),
                NameLocator(GetOr(element_info, "name", <<>>)))
    \o Appended(Has(element_info, "class") /\ Has(element_info, "type"),
                CompositeLocator(GetOr(element_info, "tag", <<"button">>),
                                 GetOr(element_info, "class", <<>>),
                                 GetOr(element_info, "type", <<>>)))
    \o Appended(Has(element_info, "text"), TextLocator(GetOr(element_info, "text", <<>>)))
    \o Appended(Has(element_info, "aria-label"),
                AriaLocator(GetOr(element_info, "aria-label", <<>>)))

\* sub in locator, and locator.startswith(prefix)
Contains(locator, sub) == IsSubstring(sub, locator)

StartsWith(locator, prefix) ==
    Len(locator) >= Len(prefix) /\ SubSeq(locator, 1, Len(prefix)) = prefix

\* re.search(r'\[\d+\]', locator)
Digits == {"0", "1", "2", "3", "4", "5", "6", "7", "8", "9"}

HasIndex(locator) ==
    \E i \in 1..Len(locator), j \in 1..Len(locator) :
        /\ locator[i] = "["
        /\ locator[j] = "]"
        /\ j > i + 1
        /\ \A k \in (i + 1)..(j - 1) : locator[k] \in Digits

\* The substrings the scorer looks for
DataTestId == <<"d", "a", "t", "a", "-", "t", "e", "s", "t", "i", "d">>
DataTest == <<"d", "a", "t", "a", "-", "t", "e", "s", "t">>
IdPrefix == <<"i", "d", "=">>
NamePrefix == <<"n", "a", "m", "e", "=">>
AnyElement == <<"/", "/", "*">>
ContainsClass ==
    <<"c", "o", "n", "t", "a", "i", "n", "s", "(", "@", "c", "l", "a", "s", "s">>

Max2(a, b) == IF a >= b THEN a ELSE b
Min2(a, b) == IF a <= b THEN a ELSE b

\* The result dictionary of the scorer
Report(raw, issues, recommendations) ==
    LET score == Max2(0, Min2(100, raw))
    IN  [score |-> score,
         strength |-> IF score >= 75 THEN "Strong"
                      ELSE IF score >= 50 THEN "Medium" ELSE "Weak",
         issues |-> issues, recommendations |-> recommendations]

\* What the best-practice tests add to the base score
Bonus(locator) ==
    IF Contains(locator, DataTestId) \/ Contains(locator, DataTest) THEN 30
    ELSE IF StartsWith(locator, IdPrefix) THEN 25
    ELSE IF StartsWith(locator, NamePrefix) THEN 15
    ELSE 0

\* The scorer, given which fragile patterns the locator shows
Score(locator, absolute, class, index) ==
    Report(50 + Bonus(locator)
              - (IF absolute THEN 20 ELSE 0)
              - (IF class THEN 10 ELSE 0)
              - (IF index THEN 15 ELSE 0),
           Appended(absolute, "Absolute XPath detected - very fragile")
           \o Appended(class, "Class-based locator may be unstable")
           \o Appended(index, "Index-based selector detected"),
           Appended(absolute, "Use relative XPath or CSS selectors")
           \o Appended(class, "Consider using data-testid or ID")
           \o Appended(index, "Use unique attributes instead"))

\* validate_locator_strength(), were it to take every xpath with '//' and a
\* bracket for an absolute one.
validate_locator_strength_AnyPath(locator) ==
    Score(locator,
          /\ Contains(locator, <<"/", "/">>)
          /\ Contains(locator, <<"[">>)
          /\ ~Contains(locator, <<"@">>),
          Contains(locator, ContainsClass),
          HasIndex(locator))

\* validate_locator_strength(locator)
validate_locator_strength(locator) ==
    Score(locator,
          /\ Contains(locator, AnyElement)
          /\ Contains(locator, <<"[">>)
          /\ ~Contains(locator, <<"@">>),
          Contains(locator, ContainsClass),
          HasIndex(locator))

\* The keys and values of the descriptors given to the generator
DescriptorKeys ==
    {"id", "data-testid", "name", "class", "type", "text", "aria-label", "tag"}

DescriptorValues == {<<>>, <<"v">>}

Descriptors ==
    {d \in UNION {[1..n -> DescriptorKeys \X DescriptorValues] : n \in 0..MaxKeys} :
        \A i \in 1..Len(d), j \in 1..Len(d) : d[i][1] = d[j][1] => i = j}

\* The locators given to the scorer: one fragment, or several in a row
Fragments ==
    {IdPrefix, NamePrefix, AnyElement, DataTest, <<"i", "d">>, ContainsClass,
     <<"/", "/", "d", "i", "v", "/", "s", "p", "a", "n">>,
     <<"[", "2", "]">>, <<"[", "@", "a", "]">>, <<"[">>, <<"x">>}

RECURSIVE Concat(_)
Concat(fs) == IF fs = <<>> THEN <<>> ELSE Head(fs) \o Concat(Tail(fs))

ScoredLocators ==
    {Concat(fs) : fs \in UNION {[1..n -> Fragments] : n \in 1..MaxFragments}}

\* What a call of a keyword of the library was given and what it returned
Given(op, arg) == [op |-> op, arg |-> arg]
Returned(op, arg, result) == [op |-> op, arg |-> arg, result |-> result]

\* A test is about to call a keyword of the library with a descriptor or a
\* locator.
InitAI ==
    /\ page = [dom |-> <<Root>>, err |-> {}]
    /\ store = AbsentFile
    /\ healing_cache = PyDict(<<>>)
    /\ healing_history = <<>>
    /\ peer = NoEngine
    /\ last \in {Given("element_info", d) : d \in Descriptors}
                \cup {Given("locator", l) : l \in ScoredLocators}

\* Generate Smart Locator
GenerateSmartLocator ==
    /\ last.op = "element_info"
    /\ last' = Returned("generate_smart_locator", last.arg,
                        generate_smart_locator(last.arg))
    /\ UNCHANGED <<page, healing_cache, store, healing_history, peer>>

\* Validate Locator Strength
ValidateLocatorStrength ==
    /\ last.op = "locator"
    /\ last' = Returned("validate_locator_strength", last.arg,
                        validate_locator_strength(last.arg))
    /\ UNCHANGED <<page, healing_cache, store, healing_history, peer>>

NextAI ==
    \/ GenerateSmartLocator
    \/ ValidateLocatorStrength

SpecAI == InitAI /\ [][NextAI]_vars

(***************************************************************************)
(* libraries/CustomLibrary.py: Retry On Failure.  A step is one pass of    *)
(* the loop: the keyword is run, and its outcome handled.                  *)
(***************************************************************************)
\* The largest max_attempts and delay a test passes.
MaxAttempts == 4
MaxDelay == 2

\* The names the module binds at its top: its imports.
ModuleNames ==
    {"json", "random", "string", "datetime", "timedelta", "Dict", "List", "Any",
     "keyword", "library", "logger", "Faker"}

\* The keywords a test retries, and how a run of one ends: it passes, or
\* fails with an exception.
KeywordNames == {"Click Login", "Open Page"}

KeywordFailures == {"AssertionError", "TimeoutException"}

KeywordResults == {"pass"} \cup KeywordFailures

NameError == [kind |-> "NameError"]

\* The call of retry_on_failure: its arguments, the number of the attempt
\* made last, how the runs of the keyword ended, and whether the call is
\* still in its loop, has returned or has raised value.
Retry(keyword_name, max_attempts, delay, attempt, results, status, value) ==
    [op |-> "retry_on_failure", keyword_name |-> keyword_name,
     max_attempts |-> max_attempts, delay |-> delay, attempt |-> attempt,
     results |-> results, status |-> status, value |-> value]

\* A test calls Retry On Failure.
InitRetry ==
    /\ page = [dom |-> <<Root>>, err |-> {}]
    /\ store = AbsentFile
    /\ healing_cache = PyDict(<<>>)
    /\ healing_history = <<>>
    /\ peer = NoEngine
    /\ \E keyword_name \in KeywordNames, max_attempts \in 0..MaxAttempts,
          delay \in 0..MaxDelay :
          last = Retry(keyword_name, max_attempts, delay, 0, <<>>, "running", None)

\* The except branch of an attempt that failed with exception: the last
\* attempt raises it again; another one warns and then evaluates
\* time.sleep(delay), which raises NameError when the module binds no time.
Failed(call, attempt, results, exception) ==
    IF attempt = call.max_attempts
    THEN Retry(call.keyword_name, call.max_attempts, call.delay, attempt, results,
               "raised", [kind |-> exception])
    ELSE IF "time" \in ModuleNames
    THEN Retry(call.keyword_name, call.max_attempts, call.delay, attempt, results,
               "running", None)
    ELSE Retry(call.keyword_name, call.max_attempts, call.delay, attempt, results,
               "raised", NameError)

\* One pass of the loop body: run_keyword, then return or the except branch.
Attempt(call, result) ==
    LET attempt == call.attempt + 1
        results == Append(call.results, result)
    IN  IF result = "pass"
        THEN Retry(call.keyword_name, call.max_attempts, call.delay, attempt, results,
                   "returned", None)
        ELSE Failed(call, attempt, results, result)

\* The loop takes the next attempt of range(1, max_attempts + 1).
RunKeyword(result) ==
    /\ last.status = "running"
    /\ last.attempt < last.max_attempts
    /\ last' = Attempt(last, result)
    /\ UNCHANGED <<page, healing_cache, store, healing_history, peer>>

\* The range is exhausted: the function ends and returns None.
LoopEnds ==
    /\ last.status = "running"
    /\ last.attempt >= last.max_attempts
    /\ last' = [last EXCEPT !.status = "returned"]
    /\ UNCHANGED <<page, healing_cache, store, healing_history, peer>>

NextRetry ==
    \/ \E result \in KeywordResults : RunKeyword(result)
    \/ LoopEnds

SpecRetry == InitRetry /\ [][NextRetry]_vars

(***************************************************************************)
(* Two engine processes on one cache file                                  *)
(***************************************************************************)
\* The cache file when two processes start: none yet, or a flat mapping.
SharedStores ==
    {AbsentFile, JsonFile(JObject(<<"id", "=", "o">> :> JString(<<"id", "=", "a">>)))}

\* Both processes are constructed: each loads the cache file once.
InitMP ==
    /\ page \in Pages
    /\ store \in SharedStores
    /\ healing_cache = load_cache(PyDict(<<>>), store).healing_cache
    /\ healing_history = <<>>
    /\ peer = Engine(load_cache(PyDict(<<>>), store).healing_cache, <<>>)
    /\ last = Last("__init__", <<>>,
                   Quiet(healing_cache, store, healing_history,
                         load_cache(PyDict(<<>>), store).warning),
                   [healing_cache |-> PyDict(<<>>), store |-> store,
                    healing_history |-> <<>>, page |-> page,
                    peer |-> Engine(PyDict(<<>>), <<>>)])

\* A test of the second process calls Find Element With Healing: the call
\* works on that process's cache and history, and on the shared cache file.
PeerFindElementWithHealing(locator, fault, stamp) ==
    /\ Len(peer.healing_history) < MaxHistory
    /\ LET r == find_element_with_healing(page, peer.healing_cache, store,
                                          peer.healing_history, locator, fault, stamp)
       IN  /\ peer' = Engine(r.healing_cache, r.healing_history)
           /\ store' = r.store
           /\ last' = Last("peer.find_element_with_healing", locator, r, Snapshot)
    /\ UNCHANGED <<page, healing_cache, healing_history>>

NextMP ==
    \/ \E locator \in Originals, fault \in SaveFaults, stamp \in Stamps :
          FindElementWithHealing(locator, fault, stamp)
    \/ \E locator \in Originals, fault \in SaveFaults, stamp \in Stamps :
          PeerFindElementWithHealing(locator, fault, stamp)

SpecMP == InitMP /\ [][NextMP]_vars

(***************************************************************************)
(* Properties                                                              *)
(***************************************************************************)
\* The last operation was a call of Find Element With Healing.
Called == last.op = "find_element_with_healing"

\* The call left the cache, the cache file and the history as they were.
Untouched ==
    /\ healing_cache = last.pre.healing_cache
    /\ store = last.pre.store
    /\ healing_history = last.pre.healing_history

\* What the driver answered for the call's original locator.
OriginalAnswer == find_element(last.pre.page, last.locator).result

\* No strategy of the chain finds an element on the call's page.
NoStrategyMatches ==
    \A i \in 1..Len(strategies) :
        Strategy(strategies[i], last.pre.page, last.locator).result.kind # "element"

\* C1 (exhaustion): a call that finds nothing through the cached locator, or
\* has no cache entry, whose original locator is not found and for which no
\* strategy of the chain finds an element, raises the not-found error that
\* carries the original locator, and leaves the cache, the cache file and the
\* history as they were.
C1_Exhaustion ==
    (/\ Called
     /\ last.cache_stage \in {"absent", "failed"}
     /\ OriginalAnswer.kind = "NoSuchElementException"
     /\ NoStrategyMatches)
    => /\ last.outcome = "raise"
       /\ last.value = [kind |-> "NoSuchElementException",
                        msg |-> <<"Could not find element even with self-healing: ">>
                                \o last.locator]
       /\ Untouched

\* A call exhausts the chain after its cached locator failed, with a history
\* that is not empty.
C1_Witness ==
    /\ Called
    /\ last.cache_stage = "failed"
    /\ OriginalAnswer.kind = "NoSuchElementException"
    /\ NoStrategyMatches
    /\ last.outcome = "raise"
    /\ last.pre.healing_history # <<>>

\* The healing event at position i is the latest one of history for locator.
IsLatestHeal(history, i, locator) ==
    /\ history[i].original_locator = locator
    /\ \A j \in (i + 1)..Len(history) : history[j].original_locator # locator

\* C2 (cache round trip): once a call has healed O and recorded H, with no
\* later heal of O, a call for O made while the driver finds an element for H
\* returns that element through the cached locator H, with the one driver
\* query for H and without calling any strategy.
C2_CacheRoundTrip ==
    Called =>
        \A i \in 1..Len(last.pre.healing_history) :
            LET H == last.pre.healing_history[i].healed_locator
            IN  (/\ IsLatestHeal(last.pre.healing_history, i, last.locator)
                 /\ find_element(last.pre.page, H).result.kind = "element")
                => /\ last.outcome = "return"
                   /\ last.path = "cache"
                   /\ last.value = find_element(last.pre.page, H).result
                   /\ last.calls = <<LocatorQuery(H)>>
                   /\ last.tried = <<>>

\* A call resolves through the cached locator that an earlier heal recorded.
C2_Witness ==
    /\ Called
    /\ last.path = "cache"
    /\ \E i \in 1..Len(last.pre.healing_history) :
          /\ IsLatestHeal(last.pre.healing_history, i, last.locator)
          /\ last.calls = <<LocatorQuery(last.pre.healing_history[i].healed_locator)>>

\* C3 (idempotence on an unchanged page), as claimed: right after a call has
\* healed O through the chain on a page whose driver raises no error, a
\* further call for O on the same page resolves through the cached locator,
\* with one driver query and without calling any strategy.
C3_Idempotence ==
    (/\ Called
     /\ last.outcome = "return"
     /\ last.path = "fallback"
     /\ page.err = {})
    => \A fault \in SaveFaults, stamp \in Stamps :
          LET r == find_element_with_healing(page, healing_cache, store, healing_history,
                                             last.locator, fault, stamp)
          IN  /\ r.outcome = "return"
              /\ r.path = "cache"
              /\ Len(r.calls) = 1
              /\ r.tried = <<>>

\* The healing event a call for its locator must have appended, for the
\* element it returned.
HealLogged ==
    /\ Len(healing_history) = Len(last.pre.healing_history) + 1
    /\ SubSeq(healing_history, 1, Len(last.pre.healing_history)) = last.pre.healing_history
    /\ healing_history[Len(healing_history)].original_locator = last.locator
    /\ healing_history[Len(healing_history)].healed_locator
          = get_element_locator(last.value.element)

\* The cache a call for its locator must have left: the one it found, with
\* the locator derived from the returned element under the original locator.
HealCached ==
    /\ healing_cache.type = "dict"
    /\ last.pre.healing_cache.type = "dict"
    /\ healing_cache.items
          = (last.locator :> PyStr(get_element_locator(last.value.element)))
            @@ last.pre.healing_cache.items

\* C4, as claimed: every call that returns an element through the cached
\* locator or through the chain, and in which no save failed, writes
\* original -> derived locator into the cache, persists the cache and appends
\* exactly one healing event.
C4_Original ==
    (/\ Called
     /\ last.outcome = "return"
     /\ last.path \in {"cache", "fallback"}
     /\ ~last.warning)
    => /\ HealCached
       /\ store = JsonFile(json_dump(healing_cache))
       /\ HealLogged

\* C4, amended: every call that returns an element through the chain writes
\* original -> derived locator into the cache, appends exactly one healing
\* event, and leaves the cache file holding the whole cache unless the save
\* failed and was logged; a call that returns through the cached locator
\* writes nothing.
C4_HealRecorded ==
    /\ (Called /\ last.outcome = "return" /\ last.path = "fallback")
       => /\ HealCached
          /\ HealLogged
          /\ ~last.warning => store = JsonFile(json_dump(healing_cache))
    /\ (Called /\ last.outcome = "return" /\ last.path = "cache") => Untouched

\* A call heals through the chain and its save succeeds, for a locator that
\* already had a cache entry.
C4_Witness ==
    /\ Called
    /\ last.outcome = "return"
    /\ last.path = "fallback"
    /\ ~last.warning
    /\ last.cache_stage = "failed"
    /\ store = JsonFile(json_dump(healing_cache))

\* The cache has a string for the call's locator, and the driver finds an
\* element for it.
CachedLocatorFinds ==
    /\ last.pre.healing_cache.type = "dict"
    /\ last.locator \in DOMAIN last.pre.healing_cache.items
    /\ last.pre.healing_cache.items[last.locator].type = "str"
    /\ find_element(last.pre.page,
                    last.pre.healing_cache.items[last.locator].value).result.kind = "element"

\* C5 (cache path): when the cache holds a locator for O and the driver finds
\* an element for it, the call returns that element after that one driver
\* query, calls no strategy, and leaves the cache, the cache file and the
\* history as they were.
C5_CachePath ==
    (Called /\ CachedLocatorFinds)
    => LET cached == last.pre.healing_cache.items[last.locator].value
       IN  /\ last.outcome = "return"
           /\ last.value = find_element(last.pre.page, cached).result
           /\ last.calls = <<LocatorQuery(cached)>>
           /\ last.tried = <<>>
           /\ Untouched

\* A call returns through a cached locator other than its original locator.
C5_Witness ==
    /\ Called
    /\ CachedLocatorFinds
    /\ last.path = "cache"
    /\ last.calls # <<LocatorQuery(last.locator)>>

\* C6 (original path): a call whose cache stage found nothing (no entry, or
\* a cached locator that failed) and whose original locator finds an element
\* returns that element through the original path, and only such a call
\* does; it calls no strategy, its last driver query is the original
\* locator's, and the cache (the failed entry included), the cache file and
\* the history are as they were.
C6_OriginalPath ==
    (Called /\ (last.path = "original"
                \/ (/\ last.cache_stage \in {"absent", "failed"}
                    /\ OriginalAnswer.kind = "element")))
    => /\ last.outcome = "return"
       /\ last.path = "original"
       /\ last.cache_stage \in {"absent", "failed"}
       /\ last.value = OriginalAnswer
       /\ last.tried = <<>>
       /\ Len(last.calls) \in {1, 2}
       /\ last.calls[Len(last.calls)] = LocatorQuery(last.locator)
       /\ Untouched

\* A call returns through the original locator after its cached locator
\* failed, and the entry is still in the cache.
C6_Witness ==
    /\ Called
    /\ last.path = "original"
    /\ last.cache_stage = "failed"
    /\ Len(last.calls) = 2
    /\ healing_cache.type = "dict"
    /\ last.locator \in DOMAIN healing_cache.items

\* The call reached the chain: its cache stage found nothing and its
\* original locator was not found.
FallbackReached ==
    /\ Called
    /\ last.cache_stage \in {"absent", "failed"}
    /\ OriginalAnswer.kind = "NoSuchElementException"

\* The order the claim gives: text content, nearby element, attribute probe,
\* positional, visual similarity.
ChainOrder ==
    <<"_heal_by_text_content", "_heal_by_nearby_elements", "_heal_by_attributes",
      "_heal_by_position", "_heal_by_visual_similarity">>

\* C7 (chain order and short circuit): a call that reaches the chain calls
\* the strategies in the order text content, nearby element, attribute
\* probe, positional, visual similarity, and stops at the first that gives
\* an element: every strategy called before the last gave none, the element
\* returned is the one the last strategy called gave, and all five were
\* called when the call ends with not-found.
C7_ChainOrder ==
    FallbackReached =>
        LET k == Len(last.tried)
            r == Strategy(ChainOrder[k], last.pre.page, last.locator).result
        IN  /\ k \in 1..Len(ChainOrder)
            /\ last.tried = SubSeq(ChainOrder, 1, k)
            /\ \A i \in 1..(k - 1) :
                  Strategy(ChainOrder[i], last.pre.page, last.locator).result.kind # "element"
            /\ IF r.kind = "element"
               THEN last.pre.healing_cache.type = "dict"
                    => (last.outcome = "return" /\ last.value = r)
               ELSE k = Len(ChainOrder) /\ last.outcome = "raise"

\* A call is healed by the third strategy, after the first two gave nothing.
C7_Witness ==
    /\ FallbackReached
    /\ last.outcome = "return"
    /\ last.tried = SubSeq(ChainOrder, 1, 3)

\* The driver queries the chain can make, in the order it makes them.
ProbeQueries ==
    [i \in 1..(Len(text_hints) + Len(attributes)) |->
        IF i <= Len(text_hints)
        THEN Query("xpath", TextXPath(text_hints[i]))
        ELSE Query("css selector", AttrSelector(attributes[i - Len(text_hints)]))]

\* The elements the i-th query of the chain selects on page p, none when the
\* query raises.
ProbeAnswer(p, i) ==
    IF ProbeQueries[i] \in p.err THEN {}
    ELSE Matches(p.dom, ProbeQueries[i][1], ProbeQueries[i][2])

\* The first query of the chain that selects an element on page p.
FirstAnswering(p) ==
    {i \in DOMAIN ProbeQueries :
        ProbeAnswer(p, i) # {} /\ \A j \in 1..(i - 1) : ProbeAnswer(p, j) = {}}

\* The i-th query of the chain raises on page p, and the chain makes it.
ProbeRaises(p, i) ==
    /\ ProbeQueries[i] \in p.err
    /\ \A j \in 1..(i - 1) : ProbeAnswer(p, j) = {}

\* C8 (strategy isolation): when a driver query of a strategy raises, the
\* error counts as no match and the chain goes on: the call never ends with
\* that error; it makes the later queries up to the first that selects an
\* element and returns that element, or, when none does, calls all five
\* strategies and ends with the not-found error.
C8_StrategyIsolation ==
    (FallbackReached /\ \E i \in DOMAIN ProbeQueries : ProbeRaises(last.pre.page, i))
    => /\ last.value.kind # "WebDriverException"
       /\ IF FirstAnswering(last.pre.page) = {}
          THEN /\ last.outcome = "raise"
               /\ last.value.kind = "NoSuchElementException"
               /\ last.tried = ChainOrder
          ELSE LET i == Min(FirstAnswering(last.pre.page))
               IN  /\ last.calls[Len(last.calls)] = ProbeQueries[i]
                   /\ last.pre.healing_cache.type = "dict"
                      => /\ last.outcome = "return"
                         /\ last.value
                               = Found(last.pre.page.dom[Min(ProbeAnswer(last.pre.page, i))])

\* A query of the text strategy raises, and the call is healed by the
\* attribute strategy.
C8_Witness ==
    /\ FallbackReached
    /\ \E i \in DOMAIN ProbeQueries : ProbeRaises(last.pre.page, i)
    /\ last.outcome = "return"
    /\ last.tried = SubSeq(ChainOrder, 1, 3)

\* C9 (errors of the original locator are fatal): when the driver raises
\* anything but not-found for the original locator, the call raises that
\* error, calls no strategy and leaves the cache, the cache file and the
\* history as they were; a call that called a strategy had not-found for its
\* original locator.
C9_OriginalErrorFatal ==
    /\ (/\ Called
        /\ last.cache_stage \in {"absent", "failed"}
        /\ OriginalAnswer.kind \notin {"element", "NoSuchElementException"})
       => /\ last.outcome = "raise"
          /\ last.value = OriginalAnswer
          /\ last.tried = <<>>
          /\ last.calls[Len(last.calls)] = LocatorQuery(last.locator)
          /\ Untouched
    /\ (Called /\ last.tried # <<>>) => OriginalAnswer.kind = "NoSuchElementException"

\* A call ends with the driver's error for its original locator, on a page
\* where a strategy would have found an element.
C9_Witness ==
    /\ Called
    /\ last.outcome = "raise"
    /\ last.value = WebDriverException
    /\ last.calls[Len(last.calls)] = LocatorQuery(last.locator)
    /\ ~NoStrategyMatches

\* The cache file holds a flat mapping of strings.
FlatMapping(st) ==
    /\ st.file = "json"
    /\ st.doc.json = "object"
    /\ \A k \in DOMAIN st.doc.members : st.doc.members[k].json = "string"

\* C10 (load tolerance), as claimed: whatever the cache file holds at start
\* that is no flat mapping of strings, the engine starts with an empty
\* cache, and no later call ends with an error of the cache's own.
C10_LoadTolerance ==
    /\ (last.op = "__init__" /\ ~FlatMapping(store)) => healing_cache = PyDict(<<>>)
    /\ Called => last.value.kind # "TypeError"

\* The element the chain of strategies finds for the call.
ChainAnswer == try_healing_strategies(last.pre.page, last.locator).result

\* The call's save failed and was logged.
SaveFailed == Called /\ last.warning

\* C11 (save-failure tolerance), as claimed: a call whose save fails still
\* returns the element the chain found, has cached original -> derived
\* locator, has appended exactly one healing event for the pair, and has left
\* the cache file with the content it had before the call.
C11_Original ==
    SaveFailed
    => /\ last.outcome = "return"
       /\ last.value = ChainAnswer
       /\ last.value.kind = "element"
       /\ HealCached
       /\ HealLogged
       /\ store = last.pre.store

\* C11, amended: a call whose save fails still returns the element the chain
\* found, has cached original -> derived locator and has appended exactly one
\* healing event for the pair; the cache file keeps the content it had when
\* the save failed before the file was opened for writing, and is left
\* without a readable document when the save failed after that.
C11_SaveFailureTolerance ==
    SaveFailed
    => /\ last.outcome = "return"
       /\ last.value = ChainAnswer
       /\ last.value.kind = "element"
       /\ HealCached
       /\ HealLogged
       /\ store \in {last.pre.store, MalformedFile}

\* A call heals while its save fails after the cache file was opened: the
\* mapping the file held before the call is gone from it.
C11_Witness ==
    /\ SaveFailed
    /\ last.outcome = "return"
    /\ HealCached
    /\ FlatMapping(last.pre.store)
    /\ store = MalformedFile

\* The locator C12 expects for an element: its id when it has one, else its
\* name when it has one, else the first element of its tag.
DerivedLocator(element) ==
    CASE element.id # <<>> -> <<"id", "=">> \o element.id
      [] element.id = <<>> /\ element.name # <<>> -> <<"name", "=">> \o element.name
      [] element.id = <<>> /\ element.name = <<>>
            -> <<"xpath", "=", "(", element.tag_name, ")[1]">>

\* C12 (write-through of the derived locator): after every call that heals
\* through the chain and whose save succeeds, the cache and the cache file
\* both map the original locator to the locator derived from the healed
\* element, and the cache file holds the whole cache.
C12_WriteThrough ==
    (/\ Called
     /\ last.outcome = "return"
     /\ last.path = "fallback"
     /\ ~last.warning)
    => LET derived == DerivedLocator(last.value.element)
       IN  /\ healing_cache.type = "dict"
           /\ last.locator \in DOMAIN healing_cache.items
           /\ healing_cache.items[last.locator] = PyStr(derived)
           /\ store.file = "json"
           /\ store.doc.json = "object"
           /\ last.locator \in DOMAIN store.doc.members
           /\ store.doc.members[last.locator] = JString(derived)
           /\ json_load(store.doc) = healing_cache

\* A call heals to an element that has both an id and a name, with a save
\* that succeeds, next to an entry the cache already held.
C12_Witness ==
    /\ Called
    /\ last.outcome = "return"
    /\ last.path = "fallback"
    /\ ~last.warning
    /\ last.value.element.id # <<>>
    /\ last.value.element.name # <<>>
    /\ DOMAIN healing_cache.items # {last.locator}

StatsCalled == last.op = "get_healing_statistics"

\* The keys of a cache that is a mapping; another value has none.
Keys(cache) == IF cache.type = "dict" THEN DOMAIN cache.items ELSE {}

\* The last min(RecentLimit, n) events of history, in insertion order.
LastEvents(history) ==
    LET n == Len(history)
        k == IF n < RecentLimit THEN n ELSE RecentLimit
    IN  [i \in 1..k |-> history[n - k + i]]

\* C14 (statistics), as claimed: every call of get_healing_statistics
\* returns the number of healing events, the number of keys of the cache and
\* the last ten events at most, in insertion order, and changes neither the
\* cache, the cache file nor the history.
C14_Statistics ==
    StatsCalled
    => /\ last.outcome = "return"
       /\ last.value.kind = "stats"
       /\ last.value.total_healings = Len(healing_history)
       /\ last.value.cached_locators = Cardinality(Keys(healing_cache))
       /\ last.value.recent_healings = LastEvents(healing_history)
       /\ Len(last.value.recent_healings) <= RecentLimit
       /\ Untouched

\* The call returned an element that a strategy of the chain found.
HealedByChain == Called /\ last.outcome = "return" /\ last.tried # <<>>

\* C19 (history is append-only): across the calls of find_element_with_healing
\* and get_healing_statistics, the history a call leaves has the history it
\* found as a prefix, and is longer by exactly one event when the call healed
\* through the chain and by none otherwise.
C19_AppendOnly ==
    (Called \/ StatsCalled)
    => LET old == last.pre.healing_history
       IN  /\ Len(healing_history) >= Len(old)
           /\ SubSeq(healing_history, 1, Len(old)) = old
           /\ Len(healing_history) = Len(old) + (IF HealedByChain THEN 1 ELSE 0)

\* A call heals through the chain with a history that already has an event.
C19_Witness ==
    /\ HealedByChain
    /\ last.pre.healing_history # <<>>
    /\ Len(healing_history) = Len(last.pre.healing_history) + 1

\* C20 (cache and history agree, last write wins): every locator with a
\* healing event has a cache entry equal to the healed locator of its most
\* recent event; no operation removes a cache entry, and an entry changes
\* only in a call that heals through the chain.
C20_Agreement ==
    /\ \A i \in 1..Len(healing_history) :
          LET O == healing_history[i].original_locator
          IN  IsLatestHeal(healing_history, i, O)
              => /\ healing_cache.type = "dict"
                 /\ O \in DOMAIN healing_cache.items
                 /\ healing_cache.items[O] = PyStr(healing_history[i].healed_locator)
    /\ last.op # "__init__"
       => /\ Keys(last.pre.healing_cache) \subseteq Keys(healing_cache)
          /\ healing_cache # last.pre.healing_cache => HealedByChain

\* A second heal of a locator replaces the entry that its first heal made.
C20_Witness ==
    /\ HealedByChain
    /\ \E i \in 1..Len(last.pre.healing_history) :
          /\ last.pre.healing_history[i].original_locator = last.locator
          /\ last.pre.healing_history[i].healed_locator
                # healing_history[Len(healing_history)].healed_locator
    /\ healing_cache.items[last.locator]
          = PyStr(healing_history[Len(healing_history)].healed_locator)

PeerCalled == last.op = "peer.find_element_with_healing"

\* The last call, of either process, healed through the chain and saved.
HealSaved ==
    /\ Called \/ PeerCalled
    /\ last.outcome = "return"
    /\ last.tried # <<>>
    /\ ~last.warning

\* The cache a heal of the last call's locator makes of cache.
WithHeal(cache) ==
    PyDict((last.locator :> PyStr(get_element_locator(last.value.element)))
           @@ cache.items)

\* C13 (lost update across processes): each of two processes on one cache
\* file changes its own cache only, by its own heals, and never reads the
\* file again after its start; a save replaces the file by the whole cache
\* of the process that saves, so that an entry the other process persisted
\* and still holds in memory can leave the file.
C13_LostUpdate ==
    /\ Called
       => /\ peer = last.pre.peer
          /\ \/ healing_cache = last.pre.healing_cache
             \/ /\ last.outcome = "return" /\ last.tried # <<>>
                /\ healing_cache = WithHeal(last.pre.healing_cache)
    /\ PeerCalled
       => /\ healing_cache = last.pre.healing_cache
          /\ healing_history = last.pre.healing_history
          /\ \/ peer.healing_cache = last.pre.peer.healing_cache
             \/ /\ last.outcome = "return" /\ last.tried # <<>>
                /\ peer.healing_cache = WithHeal(last.pre.peer.healing_cache)
    /\ HealSaved
       => store = JsonFile(json_dump(IF Called THEN healing_cache
                                     ELSE peer.healing_cache))

\* The second process saves, and an entry that the first process healed,
\* persisted and still holds in memory is no longer in the cache file.
C13_Witness ==
    /\ PeerCalled
    /\ HealSaved
    /\ \E i \in 1..Len(healing_history) :
          LET O == healing_history[i].original_locator
          IN  /\ FlatMapping(last.pre.store)
              /\ O \in DOMAIN last.pre.store.doc.members
              /\ last.pre.store.doc.members[O]
                    = JString(healing_history[i].healed_locator)
              /\ O \in DOMAIN healing_cache.items
              /\ O \notin DOMAIN store.doc.members

\* The locator string begins with a strategy name, in whatever case,
\* followed by '='.
Prefixed(locator) ==
    /\ Len(locator) >= 2
    /\ LowerChunk(locator[1]) \in StrategyNames
    /\ locator[2] = "="

\* C15 (unprefixed locators are xpath), as claimed: for every locator string
\* that does not begin with a strategy name followed by '=', an xpath with
\* '=' inside a predicate included, _find_element makes the one driver query
\* with strategy xpath and the whole string as its value.
C15_UnprefixedIsXPath ==
    (last.op = "_find_element" /\ ~Prefixed(last.locator))
    => last.calls = <<Query("xpath", last.locator)>>

\* The locator "//div/span[2]"
DivSpanIndex ==
    <<"/", "/", "d", "i", "v", "/", "s", "p", "a", "n", "[", "2", "]">>

Scored == last.op = "validate_locator_strength"

\* C16 (scoring a bare xpath with an index), as claimed: the scorer applies
\* to "//div/span[2]" both the absolute-xpath penalty of 20 and the index
\* penalty of 15, with the issue of each, to the base score of 50, and the
\* score lies within 0..100.
C16_Original ==
    (Scored /\ last.arg = DivSpanIndex)
    => /\ last.result.issues = <<"Absolute XPath detected - very fragile",
                                 "Index-based selector detected">>
       /\ last.result.score = 50 - 20 - 15
       /\ last.result.score \in 0..100

\* C16, amended: the scorer applies to "//div/span[2]", which holds no
\* "//*", the index penalty of 15 alone, with its issue and recommendation:
\* the score is 35 and the strength Weak; every score lies within 0..100,
\* and the absolute-xpath issue is reported exactly for the locators that
\* hold "//*" and "[" and no "@".
C16_IndexPenaltyOnly ==
    Scored
    => /\ last.result.score \in 0..100
       /\ (\E i \in 1..Len(last.result.issues) :
              last.result.issues[i] = "Absolute XPath detected - very fragile")
          <=> (/\ Contains(last.arg, <<"/", "/", "*">>)
               /\ Contains(last.arg, <<"[">>)
               /\ ~Contains(last.arg, <<"@">>))
       /\ last.arg = DivSpanIndex
          => /\ last.result.issues = <<"Index-based selector detected">>
             /\ last.result.recommendations = <<"Use unique attributes instead">>
             /\ last.result.score = 50 - 15
             /\ last.result.strength = "Weak"

\* The scorer has scored "//div/span[2]".
C16_Witness ==
    /\ Scored
    /\ last.arg = DivSpanIndex
    /\ last.result.score = 35

Generated == last.op = "generate_smart_locator"

\* The descriptor has the one key id.
OnlyId(element_info) == Len(element_info) = 1 /\ element_info[1][1] = "id"

\* C17 (generator with only id), as claimed: for every descriptor whose only
\* key is id, the empty string as its value included, the generator returns
\* the one candidate id=<id>.
C17_Original ==
    (Generated /\ OnlyId(last.arg))
    => last.result = << <<"id", "=">> \o last.arg[1][2] >>

\* C17, amended: for every descriptor whose only key is id, the generator
\* returns the one candidate id=<id> when the id is not empty, and no
\* candidate when it is the empty string.
C17_NonEmptyId ==
    (Generated /\ OnlyId(last.arg))
    => /\ last.arg[1][2] # <<>> => last.result = << <<"id", "=">> \o last.arg[1][2] >>
       /\ last.arg[1][2] = <<>> => last.result = <<>>

\* The generator was given a descriptor with the one key id, of an id that
\* is not empty, and returned one candidate.
C17_Witness ==
    /\ Generated
    /\ OnlyId(last.arg)
    /\ last.arg[1][2] # <<>>
    /\ Len(last.result) = 1

\* The key/value content of a descriptor, whatever the order of its pairs.
Content(element_info) ==
    [key \in {element_info[i][1] : i \in 1..Len(element_info)} |->
        Get(element_info, key)]

\* The candidates of the ladder for a content: one for each rule it
\* satisfies, in the order id, data-testid, name, class with type, text,
\* aria-label.
Rule(satisfied, candidate) == IF satisfied THEN <<candidate>> ELSE <<>>

Ladder(c) ==
    LET K == DOMAIN c
    IN  Rule("id" \in K /\ c["id"] # <<>>, <<"id", "=">> \o c["id"])
        \o Rule("data-testid" \in K,
                <<"css", "=", "[data-testid", "=", "'">> \o c["data-testid"] \o <<"']">>)
        \o Rule("name" \in K /\ c["name"] # <<>>, <<"name", "=">> \o c["name"])
        \o Rule("class" \in K /\ "type" \in K,
                <<"css", "=">> \o (IF "tag" \in K THEN c["tag"] ELSE <<"button">>)
                \o <<".">> \o c["class"] \o <<"[type", "=", "'">> \o c["type"] \o <<"']">>)
        \o Rule("text" \in K, <<"xpath", "=", "//*[contains(text(), '">> \o c["text"] \o <<"')]">>)
        \o Rule("aria-label" \in K,
                <<"css", "=", "[aria-label", "=", "'">> \o c["aria-label"] \o <<"']">>)

\* The descriptors with the content of element_info: its pairs in any order.
Reordered(element_info) ==
    {[i \in 1..Len(element_info) |-> element_info[p[i]]] :
        p \in {q \in [1..Len(element_info) -> 1..Len(element_info)] :
                  \A i \in 1..Len(element_info), j \in 1..Len(element_info) :
                      q[i] = q[j] => i = j}}

\* C18 (priority ladder): for every descriptor the generator returns one
\* candidate for each rule the descriptor satisfies and none for the others,
\* in the order id, data-testid, name, class with type, text, aria-label;
\* the list is the same for every insertion order of the same keys and
\* values.
C18_PriorityLadder ==
    Generated
    => /\ last.result = Ladder(Content(last.arg))
       /\ \A d \in Reordered(last.arg) : generate_smart_locator(d) = last.result

\* The generator was given a descriptor whose keys were inserted against
\* the order of the ladder, and returned a candidate for each of three rules.
C18_Witness ==
    /\ Generated
    /\ Len(last.arg) = 3
    /\ last.arg[1][1] = "aria-label"
    /\ last.arg[2][1] = "name"
    /\ last.arg[3][1] = "id"
    /\ Len(last.result) = 3

\* What a call for another original locator gives in the state the last
\* call was made in.
OtherCall(locator, fault, stamp) ==
    find_element_with_healing(last.pre.page, last.pre.healing_cache, last.pre.store,
                              last.pre.healing_history, locator, fault, stamp)

\* The healed locator of the newest event of a history.
NewestHealed(history) == history[Len(history)].healed_locator

\* The call for another locator reaches the chain, and ends as the last
\* call did: with the same element and the same healed locator recorded, in
\* the history and in the cache, or with an error of the same kind.
SameFallback(other, locator) ==
    other.tried # <<>>
    => /\ other.outcome = last.outcome
       /\ last.outcome = "return"
          => /\ other.value = last.value
             /\ NewestHealed(other.healing_history) = NewestHealed(healing_history)
             /\ other.healing_cache.items[locator] = healing_cache.items[last.locator]
       /\ last.outcome = "raise" => other.value.kind = last.value.kind

AllFailed(results, n) == \A i \in 1..n : results[i] \in KeywordFailures

\* C22 (Retry On Failure), as claimed: the call runs the keyword up to
\* max_attempts times; it returns at the first attempt that passes, without
\* a further attempt; it makes the next attempt after every failed attempt
\* that is not the last, so that it raises only after max_attempts failures
\* in a row, and then the failure of the keyword itself.
C22_Retry ==
    /\ Len(last.results) <= last.max_attempts
    /\ (last.status = "returned" /\ last.results # <<>>)
       => /\ last.results[Len(last.results)] = "pass"
          /\ AllFailed(last.results, Len(last.results) - 1)
    /\ last.status = "raised"
       => /\ Len(last.results) = last.max_attempts
          /\ AllFailed(last.results, last.max_attempts)
          /\ last.value = [kind |-> last.results[last.max_attempts]]

====
